---- MODULE Spec2Model ----
(***************************************************************************)
(* A model of asyncpg's protocol dispatcher (BaseProtocol, protocol.pyx):  *)
(* the waiter, the timeout handle, the cancel waiters and the public       *)
(* operations, run by caller tasks on one asyncio event loop, against the  *)
(* protocol engine (CoreProtocol) and a PostgreSQL backend.                *)
(*                                                                         *)
(* A step of the model is one callback of the event loop: a task running   *)
(* from one suspension point to the next, a data_received() of one server  *)
(* message, a timer, a done-callback, connection_lost().  Handlers are     *)
(* operators from world to world, composed the way the code calls them.    *)
(***************************************************************************)
EXTENDS Integers, FiniteSets, Sequences, TLC

\* ---------------------------------------------------------------- bounds
NumCallers == 2
MaxFut == 4
MaxChunks == 1

Callers == 1..NumCallers
FutIds == 1..MaxFut
FutDom == 0..MaxFut

\* ------------------------------------------------------------- constants
None == 0
CommandTimeout == 3
NumberTimeout == 2

VARIABLES proto, futures, tasks, loop, net

vars == <<proto, futures, tasks, loop, net>>

\* ---------------------------------------------------------------- values
\* A timeout argument: None, the NO_TIMEOUT sentinel, a bool or a number.
T_None == [k |-> "None", v |-> 0]
NO_TIMEOUT == [k |-> "NO_TIMEOUT", v |-> 0]
Num(n) == [k |-> "num", v |-> n]
Bool(b) == [k |-> "bool", v |-> b]

TimeoutArgs == {T_None, NO_TIMEOUT, Bool(1), Num(0), Num(NumberTimeout)}
CommandTimeouts == {T_None, Num(CommandTimeout)}

E_Cancelling == "InterfaceError: another operation is cancelling"
E_Closed == "InterfaceError: connection is closed"
E_InProgress == "InterfaceError: another operation is in progress"
\* What a request method raises on arguments it cannot encode.
E_Request == "DataError: invalid input for query argument"
InterfaceErrors == {E_Cancelling, E_Closed, E_InProgress}

SimpleOps == {"prepare", "bind_execute", "bind", "execute", "query", "close_statement"}
WaiterFirstOps == {"bind_execute_many", "copy_out", "copy_in"}
Ops == SimpleOps \cup WaiterFirstOps
CopyInModes == {"records", "reader", "data"}

\* The engine state each request method moves an idle engine to.
StateOf(op) ==
  CASE op = "prepare" -> "PREPARE"
    [] op = "bind_execute" -> "BIND_EXECUTE"
    [] op = "bind_execute_many" -> "BIND_EXECUTE_MANY"
    [] op = "bind" -> "BIND"
    [] op = "execute" -> "EXECUTE"
    [] op = "query" -> "SIMPLE_QUERY"
    [] op = "copy_out" -> "COPY_OUT_DATA"
    [] op = "copy_in" -> "COPY_IN_DATA"
    [] op = "close_statement" -> "CLOSE_STMT_PORTAL"

\* ----------------------------------------------------------------- world
World == [p |-> proto, f |-> futures, t |-> tasks, l |-> loop, n |-> net,
          ovf |-> FALSE]

Free == [st |-> "free", v |-> "", q |-> 0, cb |-> FALSE]
Pending == [st |-> "pending", v |-> "", q |-> 0, cb |-> FALSE]
NoOut == [st |-> "none", v |-> "", q |-> 0]
Raised(e) == [st |-> "exception", v |-> e, q |-> 0]
Returned(v) == [st |-> "result", v |-> v, q |-> 0]

done(w, i) == w.f[i].st \in {"result", "exception", "cancelled"}
cancelled(w, i) == w.f[i].st = "cancelled"

Fault(w, e) == [w EXCEPT !.n.fault = IF @ = "" THEN e ELSE @]

\* loop.create_future(): the smallest future not referenced from anywhere.
NewFut(w) ==
  IF \E i \in FutIds : w.f[i].st = "free"
  THEN CHOOSE i \in FutIds : /\ w.f[i].st = "free"
                             /\ \A j \in FutIds : w.f[j].st = "free" => i <= j
  ELSE 0

create_future(w) ==
  LET i == NewFut(w)
  IN IF i = 0 THEN [w |-> [w EXCEPT !.ovf = TRUE], id |-> 0]
     ELSE [w |-> [w EXCEPT !.f[i] = Pending], id |-> i]

\* Future.set_result / set_exception: InvalidStateError on a done future;
\* the done-callbacks are scheduled with call_soon.
Complete(w, i, st, v, q) ==
  IF w.f[i].st # "pending" THEN Fault(w, "InvalidStateError")
  ELSE [w EXCEPT !.f[i] = [@ EXCEPT !.st = st, !.v = v, !.q = q],
                 !.l.ready = IF w.f[i].cb THEN @ \cup {i} ELSE @]

set_result(w, i, v, q) == Complete(w, i, "result", v, q)
set_exception(w, i, e, q) == Complete(w, i, "exception", e, q)

\* TimerHandle.cancel()
handle_cancel(w, h) == [w EXCEPT !.l.timers[h] = 0]

\* ------------------------------------------------------------- transport
\* transport.write(): what the backend does with a message of the client.
Write(w, msg) ==
  IF w.n.transport # "open" THEN w
  ELSE CASE msg \in Ops ->
              [w EXCEPT !.n.srv = CASE msg = "copy_out" -> "copy_out"
                                    [] msg = "copy_in" -> "copy_in"
                                    [] OTHER -> "busy",
                        !.n.chunks = 0]
         [] msg = "CopyData" -> w
         [] msg = "CopyDone" ->
              IF w.n.srv = "copy_in" THEN [w EXCEPT !.n.srv = "busy"] ELSE w
         [] msg = "CopyFail" ->
              IF w.n.srv = "copy_in" THEN [w EXCEPT !.n.srv = "aborting"] ELSE w
         [] msg = "Terminate" ->
              [w EXCEPT !.n.srv = "closed",
                        !.n.terminates = IF @ < 2 THEN @ + 1 ELSE @]

\* transport.resume_reading() / transport.pause_reading(): rderr records a
\* call that does not alternate with the one before.
transport_resume_reading(w) ==
  [w EXCEPT !.n.paused = FALSE, !.n.rderr = @ \/ ~w.n.paused]

transport_pause_reading(w) ==
  [w EXCEPT !.n.paused = TRUE, !.n.rderr = @ \/ w.n.paused]

resume_reading(w) ==
  IF ~w.p.is_reading
  THEN transport_resume_reading([w EXCEPT !.p.is_reading = TRUE])
  ELSE w

pause_reading(w) ==
  IF w.p.is_reading
  THEN transport_pause_reading([w EXCEPT !.p.is_reading = FALSE])
  ELSE w

\* transport.abort(): no more data; connection_lost(None) is scheduled.
transport_abort(w) ==
  IF w.n.transport = "open" THEN [w EXCEPT !.n.transport = "aborted"] ELSE w

\* ------------------------------------------------------------ dispatcher
\* _request_cancel that forgets to create cancel_waiter.
_request_cancel_without_waiter(w) ==
  LET b == create_future(w)
  IN [b.w EXCEPT !.p.cancel_sent_waiter = b.id,
                 !.n.cancels = @ \cup {b.id},
                 !.p.state = "CANCELLED"]

\* a and b are the two futures, created one after the other; bound
\* variables are evaluated once.
_request_cancel(w) ==
  CHOOSE r \in {[b.w EXCEPT !.p.cancel_waiter = a.id,
                            !.p.cancel_sent_waiter = b.id,
                            !.n.cancels = @ \cup {b.id},
                            !.p.state = "CANCELLED"] :
                  <<a, b>> \in {<<x, create_future(x.w)>> :
                                  x \in {create_future(w)}}} : TRUE

\* _on_timeout that fails the waiter without requesting a cancel.
_on_timeout_without_cancel(w, fut) ==
  IF \/ w.p.waiter # fut
     \/ done(w, fut)
     \/ w.p.cancel_waiter # None
     \/ w.p.timeout_handle = None
  THEN w
  ELSE set_exception(w, w.p.waiter, "TimeoutError", 0)

\* _on_timeout that does not compare its future with the current waiter.
_on_timeout_any_waiter(w, fut) ==
  IF \/ w.p.waiter = None
     \/ done(w, w.p.waiter)
     \/ w.p.cancel_waiter # None
     \/ w.p.timeout_handle = None
  THEN w
  ELSE CHOOSE r \in {set_exception(w1, w1.p.waiter, "TimeoutError", 0) :
                       w1 \in {_request_cancel(w)}} : TRUE

_on_timeout(w, fut) ==
  IF \/ w.p.waiter # fut
     \/ done(w, fut)
     \/ w.p.cancel_waiter # None
     \/ w.p.timeout_handle = None
  THEN w
  ELSE CHOOSE r \in {set_exception(w1, w1.p.waiter, "TimeoutError", 0) :
                       w1 \in {_request_cancel(w)}} : TRUE

_on_waiter_completed(w, fut) ==
  IF fut # w.p.waiter \/ w.p.cancel_waiter # None THEN w
  ELSE IF cancelled(w, fut)
       THEN LET w1 == IF w.p.timeout_handle # None
                      THEN [handle_cancel(w, w.p.timeout_handle)
                              EXCEPT !.p.timeout_handle = None]
                      ELSE w
            IN _request_cancel(w1)
       ELSE w

\* _handle_waiter_on_connection_lost without the test of waiter.done().
_handle_waiter_on_connection_lost_unchecked(w, cause) ==
  LET w1 == IF w.p.waiter # None
            THEN set_exception(w, w.p.waiter, "ConnectionDoesNotExistError", cause)
            ELSE w
  IN [w1 EXCEPT !.p.waiter = None]

_handle_waiter_on_connection_lost(w, cause) ==
  LET w1 == IF w.p.waiter # None /\ ~done(w, w.p.waiter)
            THEN set_exception(w, w.p.waiter, "ConnectionDoesNotExistError", cause)
            ELSE w
  IN [w1 EXCEPT !.p.waiter = None]

_get_timeout_impl(timeout, command_timeout) ==
  LET t == IF timeout.k = "None" THEN command_timeout
           ELSE IF timeout.k = "NO_TIMEOUT" THEN T_None
           ELSE Num(timeout.v)
  IN IF t.k # "None" /\ t.v <= 0
     THEN [exc |-> "TimeoutError", val |-> T_None]
     ELSE [exc |-> "", val |-> t]

\* float(NO_TIMEOUT) raises TypeError, which `except ValueError` lets through.
_get_timeout(timeout, command_timeout) ==
  IF timeout.k = "bool"
  THEN [exc |-> "ValueError: invalid timeout value", val |-> T_None]
  ELSE IF timeout.k = "NO_TIMEOUT"
  THEN [exc |-> "TypeError: float() argument must be a number", val |-> T_None]
  ELSE _get_timeout_impl(timeout, command_timeout)

_check_state(w) ==
  IF w.p.cancel_waiter # None THEN E_Cancelling
  ELSE IF w.p.closing THEN E_Closed
  ELSE IF w.p.waiter # None \/ w.p.timeout_handle # None THEN E_InProgress
  ELSE ""

_new_waiter(w, timeout) ==
  IF w.p.waiter # None THEN [w |-> w, id |-> 0, exc |-> E_InProgress]
  ELSE LET cf == create_future(w)
           w1 == [cf.w EXCEPT !.p.waiter = cf.id]
           w2 == IF timeout.k # "None"
                 THEN [w1 EXCEPT !.p.timeout_handle = cf.id,
                                 !.l.timers[cf.id] = timeout.v]
                 ELSE w1
       IN [w |-> [w2 EXCEPT !.f[cf.id].cb = TRUE], id |-> cf.id, exc |-> ""]

_on_result__copy_out(w, waiter) ==
  LET copy_done == w.p.state = "COPY_OUT_DONE"
      buf == w.p.result = "data"
      v == IF buf THEN (IF copy_done THEN "buffer,done" ELSE "buffer")
           ELSE (IF copy_done THEN "empty,done" ELSE "empty")
  IN set_result(pause_reading(w), waiter, v, 0)

\* _dispatch_result that hands a failed result to the waiter as a value.
_dispatch_result_ignoring_failure(w) ==
  LET waiter == w.p.waiter
      w1 == [w EXCEPT !.p.waiter = None]
  IN IF waiter = None THEN Fault(w1, "_on_result: waiter is None")
     ELSE IF cancelled(w, waiter) THEN w1
     ELSE IF done(w, waiter) THEN Fault(w1, "_on_result: waiter is done")
     ELSE set_result(w1, waiter, "status", 0)

\* With no waiter the debug build raises RuntimeError and the release build
\* AttributeError (None.cancelled()): either way an exception that escapes.
_dispatch_result(w) ==
  LET waiter == w.p.waiter
      w1 == [w EXCEPT !.p.waiter = None]
      s == w.p.state
  IN IF waiter = None THEN Fault(w1, "_on_result: waiter is None")
     ELSE IF cancelled(w, waiter) THEN w1
     ELSE IF done(w, waiter) THEN Fault(w1, "_on_result: waiter is done")
     ELSE IF w.p.result_type = "FAILED"
          THEN set_exception(w1, waiter, "PostgresError", w.p.last_query)
     ELSE CASE s = "PREPARE" -> set_result(w1, waiter, "statement", w.p.statement)
            [] s \in {"BIND_EXECUTE", "BIND_EXECUTE_MANY", "EXECUTE"} ->
                 set_result(w1, waiter,
                            IF w.p.return_extra THEN "rows,status,completed"
                            ELSE "rows", 0)
            [] s = "BIND" -> set_result(w1, waiter, "result", 0)
            [] s = "CLOSE_STMT_PORTAL" -> set_result(w1, waiter, "result", 0)
            [] s = "SIMPLE_QUERY" -> set_result(w1, waiter, "status", 0)
            [] s \in {"COPY_OUT_DATA", "COPY_OUT_DONE"} ->
                 _on_result__copy_out(w1, waiter)
            [] s = "COPY_IN_DATA" -> set_result(w1, waiter, "status", 0)
            [] OTHER -> set_exception(w1, waiter,
                                      "RuntimeError: unknown protocol state", 0)

_on_result(w) ==
  LET w1 == IF w.p.timeout_handle # None
            THEN [handle_cancel(w, w.p.timeout_handle)
                    EXCEPT !.p.timeout_handle = None]
            ELSE w
  IN IF w1.p.cancel_waiter # None
     THEN [set_result(w1, w1.p.cancel_waiter, "None", 0)
             EXCEPT !.p.cancel_waiter = None, !.p.waiter = None]
     ELSE [_dispatch_result(w1) EXCEPT !.p.statement = None,
                                       !.p.last_query = None,
                                       !.p.return_extra = FALSE]

\* _on_connection_lost that does not mark the connection as closing.
_on_connection_lost_not_closing(w, exc) ==
  IF w.p.closing
  THEN LET w1 == IF w.p.waiter # None /\ ~done(w, w.p.waiter)
                 THEN IF exc = 0 THEN set_result(w, w.p.waiter, "None", 0)
                      ELSE set_exception(w, w.p.waiter, "TransportError", 0)
                 ELSE w
       IN [w1 EXCEPT !.p.waiter = None]
  ELSE _handle_waiter_on_connection_lost(w, exc)

_on_connection_lost(w, exc) ==
  IF w.p.closing
  THEN LET w1 == IF w.p.waiter # None /\ ~done(w, w.p.waiter)
                 THEN IF exc = 0 THEN set_result(w, w.p.waiter, "None", 0)
                      ELSE set_exception(w, w.p.waiter, "TransportError", 0)
                 ELSE w
       IN [w1 EXCEPT !.p.waiter = None]
  ELSE _handle_waiter_on_connection_lost([w EXCEPT !.p.closing = TRUE], exc)

pause_writing(w) == [w EXCEPT !.p.writing_allowed = FALSE]

resume_writing(w) == [w EXCEPT !.p.writing_allowed = TRUE]

\* ---------------------------------------------------------------- engine
\* CoreProtocol (coreproto.pyx), from its specification: a request method
\* asserts an idle engine, moves it to the operation's state and writes the
\* request; ErrorResponse marks the result FAILED; ReadyForQuery fires the
\* terminal hook and resets the engine to idle.
EngineRequest(w, c, op) ==
  IF w.p.state # "IDLE"
  THEN [w |-> w, exc |-> "InternalClientError: another operation is in progress"]
  ELSE IF w.t[c].bad
  THEN [w |-> w, exc |-> E_Request]
  ELSE [w |-> Write([w EXCEPT !.p.state = StateOf(op),
                              !.p.copy_aborted = FALSE,
                              !.t[c].sent = TRUE], op),
        exc |-> ""]

_terminate(w) == Write([w EXCEPT !.p.state = "TERMINATING"], "Terminate")

_push_result(w) ==
  [_on_result(w) EXCEPT !.p.state = "IDLE", !.p.result_type = "OK",
                        !.p.result = "none"]

OnErrorResponse(w) ==
  [w EXCEPT !.p.result_type = "FAILED",
            !.p.copy_aborted = @ \/ w.p.state = "COPY_IN_DATA"]

OnCopyData(w) ==
  IF w.p.state = "COPY_OUT_DATA"
  THEN [_on_result([w EXCEPT !.p.result = "data"]) EXCEPT !.p.result = "none"]
  ELSE w

OnCopyDone(w, with_data) ==
  IF w.p.state = "COPY_OUT_DATA"
  THEN _push_result([w EXCEPT !.p.state = "COPY_OUT_DONE",
                              !.p.result = IF with_data THEN "data" ELSE "none"])
  ELSE _push_result(w)

\* CopyData and CopyFail of the caller are dropped once the server's
\* ErrorResponse arrived in COPY_IN_DATA; CopyDone is written.
_write_copy_data_msg(w, c) ==
  IF w.p.copy_aborted THEN w
  ELSE Write([w EXCEPT !.t[c].nd = @ + 1], "CopyData")

\* CopyFail written whatever the server said.
_write_copy_fail_msg_always(w, c) ==
  Write([w EXCEPT !.t[c].nfail = @ + 1], "CopyFail")

_write_copy_fail_msg(w, c) ==
  IF w.p.copy_aborted THEN w
  ELSE Write([w EXCEPT !.t[c].nfail = @ + 1], "CopyFail")

_write_copy_done_msg(w, c) ==
  Write([w EXCEPT !.t[c].ndone = @ + 1], "CopyDone")

\* ----------------------------------------------------------------- tasks
IdleTask == [pc |-> "idle", op |-> "", timeout |-> T_None, waiter |-> 0,
             aw |-> 0, out |-> NoOut, sent |-> FALSE, mode |-> "",
             nd |-> 0, ndone |-> 0, nfail |-> 0, rx |-> FALSE, refs |-> 0,
             stmt_closed |-> FALSE, codone |-> FALSE, plan |-> <<>>,
             bad |-> FALSE]

\* The coroutine returns or raises.
Finish(w, c, out) ==
  [w EXCEPT !.t[c] = [@ EXCEPT !.pc = "done", !.out = out, !.waiter = 0,
                               !.aw = 0, !.timeout = T_None]]

OutOf(w, i) == [st |-> w.f[i].st, v |-> w.f[i].v, q |-> w.f[i].q]

\* `await fut`: the task is suspended on fut.
Await(w, c, pc, i) ==
  [w EXCEPT !.t[c] = [@ EXCEPT !.pc = pc, !.waiter = i]]

\* The simple operations with close_statement not looking at state.refs.
SimpleBody_without_refs_check(w, c) ==
  LET tk == w.t[c]
      cs == _check_state(w)
      to == IF tk.op = "query"
            THEN _get_timeout(tk.timeout, w.p.command_timeout)
            ELSE _get_timeout_impl(tk.timeout, w.p.command_timeout)
      rq == EngineRequest(w, c, tk.op)
      w2 == CASE tk.op \in {"prepare", "bind"} ->
                   [rq.w EXCEPT !.p.last_query = 1, !.p.statement = 1]
              [] tk.op \in {"bind_execute", "execute"} ->
                   [rq.w EXCEPT !.p.last_query = 1, !.p.statement = 1,
                                !.p.return_extra = tk.rx]
              [] tk.op = "query" -> [rq.w EXCEPT !.p.last_query = 1]
              [] tk.op = "close_statement" ->
                   [rq.w EXCEPT !.t[c].stmt_closed = TRUE]
      nw == _new_waiter(w2, to.val)
  IN IF cs # "" THEN Finish(w, c, Raised(cs))
     ELSE IF to.exc # "" THEN Finish(w, c, Raised(to.exc))
     ELSE IF rq.exc # "" THEN Finish(rq.w, c, Raised(rq.exc))
     ELSE IF nw.exc # "" THEN Finish(nw.w, c, Raised(nw.exc))
     ELSE Await([nw.w EXCEPT !.t[c].timeout = T_None], c, "await_waiter", nw.id)

\* prepare, bind_execute, bind, execute, query, close_statement after the
\* cancel waits.
SimpleBody(w, c) ==
  LET tk == w.t[c]
      cs == _check_state(w)
      to == IF tk.op = "query"
            THEN _get_timeout(tk.timeout, w.p.command_timeout)
            ELSE _get_timeout_impl(tk.timeout, w.p.command_timeout)
      rq == EngineRequest(w, c, tk.op)
      w2 == CASE tk.op \in {"prepare", "bind"} ->
                   [rq.w EXCEPT !.p.last_query = 1, !.p.statement = 1]
              [] tk.op \in {"bind_execute", "execute"} ->
                   [rq.w EXCEPT !.p.last_query = 1, !.p.statement = 1,
                                !.p.return_extra = tk.rx]
              [] tk.op = "query" -> [rq.w EXCEPT !.p.last_query = 1]
              [] tk.op = "close_statement" ->
                   [rq.w EXCEPT !.t[c].stmt_closed = TRUE]
      nw == _new_waiter(w2, to.val)
  IN IF cs # "" THEN Finish(w, c, Raised(cs))
     ELSE IF to.exc # "" THEN Finish(w, c, Raised(to.exc))
     ELSE IF tk.op = "close_statement" /\ tk.refs # 0
          THEN Finish(w, c, Raised("RuntimeError: cannot close prepared statement"))
     ELSE IF rq.exc # "" THEN Finish(rq.w, c, Raised(rq.exc))
     ELSE IF nw.exc # "" THEN Finish(nw.w, c, Raised(nw.exc))
     ELSE Await([nw.w EXCEPT !.t[c].timeout = T_None], c, "await_waiter", nw.id)

\* bind_execute_many, copy_out, copy_in after the cancel waits: the waiter
\* is created before the request method is called.  copy_in runs on into its
\* data phase (CopyInRun, below).
RECURSIVE CopyInRun(_, _)
WaiterFirstBody(w, c) ==
  LET tk == w.t[c]
      cs == _check_state(w)
      to == _get_timeout_impl(tk.timeout, w.p.command_timeout)
      nw == _new_waiter(w, to.val)
      rq == EngineRequest(nw.w, c, tk.op)
      w2 == CASE tk.op = "bind_execute_many" ->
                   [rq.w EXCEPT !.p.last_query = 1, !.p.statement = 1,
                                !.p.return_extra = FALSE, !.t[c].timeout = T_None]
              [] tk.op = "copy_out" ->
                   [resume_reading(rq.w) EXCEPT !.t[c].timeout = to.val]
              [] tk.op = "copy_in" ->
                   [rq.w EXCEPT !.t[c].timeout = to.val]
      pc == CASE tk.op = "bind_execute_many" -> "await_waiter"
              [] tk.op = "copy_out" -> "co_wait"
              [] tk.op = "copy_in" -> "ci_gate"
  IN IF cs # "" THEN Finish(w, c, Raised(cs))
     ELSE IF to.exc # "" THEN Finish(w, c, Raised(to.exc))
     ELSE IF nw.exc # "" THEN Finish(nw.w, c, Raised(nw.exc))
     ELSE IF rq.exc # "" THEN Finish(rq.w, c, Raised(rq.exc))
     ELSE IF tk.op = "copy_in" THEN CopyInRun(Await(w2, c, pc, nw.id), c)
     ELSE Await(w2, c, pc, nw.id)

\* close() after the cancel waits.
CloseBody(w, c) ==
  LET w1 == _handle_waiter_on_connection_lost(w, 0)
      w2 == _terminate(w1)
      cf == create_future(w2)
      w3 == transport_abort([cf.w EXCEPT !.p.waiter = cf.id, !.p.closing = TRUE])
  IN IF w1.p.closing THEN Finish(w1, c, Returned("None"))
     ELSE Await(w3, c, "await_waiter", cf.id)

Body(w, c) ==
  CASE w.t[c].op \in SimpleOps -> SimpleBody(w, c)
    [] w.t[c].op \in WaiterFirstOps -> WaiterFirstBody(w, c)
    [] w.t[c].op = "close" -> CloseBody(w, c)

\* The head of every public operation and of close():
\*   if self.cancel_waiter is not None: await self.cancel_waiter
\*   if self.cancel_sent_waiter is not None:
\*       await self.cancel_sent_waiter; self.cancel_sent_waiter = None
AfterCancelSent(w, c) ==
  Body([w EXCEPT !.p.cancel_sent_waiter = None, !.t[c].aw = 0], c)

AfterCancelWait(w, c) ==
  IF w.p.cancel_sent_waiter # None
  THEN IF done(w, w.p.cancel_sent_waiter)
       THEN AfterCancelSent(w, c)
       ELSE [w EXCEPT !.t[c].pc = "await_cancel_sent",
                      !.t[c].aw = w.p.cancel_sent_waiter]
  ELSE Body([w EXCEPT !.t[c].aw = 0], c)

\* The head of an operation without the wait for cancel_waiter.
Prelude_without_cancel_wait(w, c) == AfterCancelWait(w, c)

Prelude(w, c) ==
  IF w.p.cancel_waiter # None
  THEN IF done(w, w.p.cancel_waiter)
       THEN AfterCancelWait(w, c)
       ELSE [w EXCEPT !.t[c].pc = "await_cancel",
                      !.t[c].aw = w.p.cancel_waiter]
  ELSE AfterCancelWait(w, c)

\* -------------------------------------------------------------- copy_out
\* copy_out leaves its loop: the finally clause resumes reading.
CopyOutExit(w, c, out) == Finish(resume_reading(w), c, out)

\* `buffer, done, status_msg = await waiter` and what follows up to the sink.
CopyOutGot(w, c) ==
  LET i == w.t[c].waiter
      v == w.f[i].v
  IN IF w.f[i].st # "result" THEN CopyOutExit(w, c, OutOf(w, i))
     ELSE IF v \in {"buffer", "buffer,done"}
          THEN [w EXCEPT !.t[c] = [@ EXCEPT !.pc = "co_sink", !.waiter = 0,
                                            !.codone = (v = "buffer,done")]]
     ELSE IF v = "empty,done" THEN CopyOutExit(w, c, Returned("status"))
     ELSE CopyOutExit(w, c, Raised("ValueError: cannot unpack"))

\* The sink returned, raised, or asyncio.wait_for() timed it out.
CopyOutSunk(w, c, how) ==
  LET nw == _new_waiter(w, w.t[c].timeout)
  IN IF how = "ok"
     THEN IF w.t[c].codone THEN CopyOutExit(w, c, Returned("status"))
          ELSE IF nw.exc # "" THEN CopyOutExit(nw.w, c, Raised(nw.exc))
          ELSE Await(resume_reading(nw.w), c, "co_wait", nw.id)
     ELSE CopyOutExit(_request_cancel(w), c,
                      Raised(IF how = "timeout" THEN "TimeoutError" ELSE "SinkError"))

\* --------------------------------------------------------------- copy_in
\* The handler of a source error without its CopyFail.
CopyInError_without_fail(w, c) ==
  Finish(_request_cancel(w), c, Raised("SourceError"))

\* except Exception as e: CopyFail, _request_cancel, raise
CopyInError(w, c) ==
  Finish(_request_cancel(_write_copy_fail_msg(w, c)), c, Raised("SourceError"))

\* `await waiter` in the TimeoutError handler, and its try/except/else.
CopyInTimeoutGot(w, c) ==
  LET i == w.t[c].waiter
  IN IF w.f[i].st = "result"
     THEN Finish(w, c, Raised("RuntimeError: TimoutError was not raised"))
     ELSE Finish(w, c, OutOf(w, i))

\* except asyncio.TimeoutError: CopyFail, _on_timeout(self.waiter), await waiter
CopyInTimeout(w, c) ==
  LET w1 == _write_copy_fail_msg(w, c)
      w2 == _on_timeout(w1, w1.p.waiter)
  IN IF w1.p.waiter = None
     THEN Finish(w1, c, Raised("AttributeError: 'NoneType' object has no attribute 'done'"))
     ELSE IF done(w2, w2.t[c].waiter) THEN CopyInTimeoutGot(w2, c)
     ELSE [w2 EXCEPT !.t[c].pc = "ci_tmo"]

\* _write_copy_done_msg(); status_msg = await waiter
CopyInFinish(w, c) ==
  LET w1 == _write_copy_done_msg(w, c)
  IN IF done(w1, w1.t[c].waiter) THEN Finish(w1, c, OutOf(w1, w1.t[c].waiter))
     ELSE [w1 EXCEPT !.t[c].pc = "ci_final"]

\* What the caller's data does next, as far as copy_in can run without
\* suspending: buffers that fill up ("full"), then the end of the records
\* or of the data ("end") or an exception of the source or encoder ("error").
RECURSIVE PlansOf(_)
PlansOf(n) ==
  IF n = 0 THEN {<<"end">>, <<"error">>}
  ELSE PlansOf(n - 1) \cup {<<"full">> \o pl : pl \in PlansOf(n - 1)}

CopyInPlans(w, c, m) ==
  CASE m = "records" ->
         PlansOf(IF w.t[c].nd < MaxChunks THEN MaxChunks - w.t[c].nd ELSE 0)
    [] m = "data" -> PlansOf(0)
    [] OTHER -> {<<>>}

\* The plan is kept only while the operation has not begun: it is waiting
\* for a cancel in progress.
ClearPlan(w, c) ==
  IF w.t[c].pc \in {"await_cancel", "await_cancel_sent"} THEN w
  ELSE [w EXCEPT !.t[c].plan = <<>>]

\* The data phase, run up to its next suspension.  `await
\* self.writing_allowed.wait()` suspends only while the gate is closed.
\* records: a full buffer is written after the gate, the last buffer
\* without it; reader: the gate, then the reader is awaited; data: the
\* gate, then the one buffer.
CopyInRun(w, c) ==
  LET m == w.t[c].mode
      pl == w.t[c].plan
      h == IF pl = <<>> THEN "" ELSE Head(pl)
      w1 == IF pl = <<>> THEN w ELSE [w EXCEPT !.t[c].plan = Tail(pl)]
  IN CASE m = "records" /\ h = "error" -> CopyInError(w, c)
       [] m = "records" /\ h = "end" ->
            CopyInFinish(_write_copy_data_msg(w, c), c)
       [] m = "records" /\ h = "full" ->
            IF w.p.writing_allowed
            THEN CopyInRun(_write_copy_data_msg(w1, c), c)
            ELSE [w EXCEPT !.t[c].pc = "ci_gate"]
       [] m = "reader" ->
            IF w.p.writing_allowed THEN [w EXCEPT !.t[c].pc = "ci_read"]
            ELSE [w EXCEPT !.t[c].pc = "ci_gate"]
       [] m = "data" ->
            IF ~w.p.writing_allowed THEN [w EXCEPT !.t[c].pc = "ci_gate"]
            ELSE IF h = "error" THEN CopyInError(w, c)
            ELSE CopyInFinish(_write_copy_data_msg(w, c), c)

\* writing_allowed.wait() returns: records writes the buffer that was full
\* and goes on; reader and data go on from the gate.
CopyInGate(w, c) ==
  IF w.t[c].mode = "records"
  THEN CopyInRun(_write_copy_data_msg(w, c), c)
  ELSE CopyInRun(w, c)

\* iterator.__anext__() under asyncio.wait_for(): a chunk, the end, an
\* exception, or the budget ran out.
CopyInRead(w, c, how) ==
  CASE how = "chunk" -> CopyInRun(_write_copy_data_msg(w, c), c)
    [] how = "end" -> CopyInFinish(w, c)
    [] how = "error" -> CopyInError(w, c)
    [] how = "timeout" -> CopyInTimeout(w, c)

CopyInReadEnabled(w, c, how) ==
  \/ how = "chunk" /\ w.t[c].nd < MaxChunks
  \/ how \in {"end", "error"}
  \/ how = "timeout" /\ w.t[c].timeout.k # "None"

\* ------------------------------------------------------------ event loop
\* What call_soon has queued: done-callbacks of waiters (i), wakeups of
\* tasks whose awaited future is done (-c), connection_lost (0).
Awaited(w, c) ==
  CASE w.t[c].pc \in {"await_cancel", "await_cancel_sent"} -> w.t[c].aw
    [] w.t[c].pc \in {"await_waiter", "co_wait", "ci_final", "ci_tmo"} -> w.t[c].waiter
    [] OTHER -> 0

Woken(w, c) == Awaited(w, c) # 0 /\ done(w, Awaited(w, c))

Queued(w) ==
  w.l.ready \cup {0 - c : c \in {d \in Callers : Woken(w, d)}}
            \cup (IF w.n.transport \in {"aborted", "broken"} THEN {0} ELSE {})

Refs(w) ==
  ({w.p.waiter, w.p.cancel_waiter, w.p.cancel_sent_waiter, w.p.timeout_handle}
   \cup {i \in FutIds : w.l.timers[i] # 0}
   \cup w.l.ready \cup w.n.cancels
   \cup {w.t[c].waiter : c \in Callers} \cup {w.t[c].aw : c \in Callers})
  \ {0}

\* A future nothing refers to is garbage; its id is free again.
Collect(w) ==
  [w EXCEPT !.f = [i \in FutDom |-> IF i \in Refs(w) THEN w.f[i] ELSE Free]]

\* One iteration of the loop runs what call_soon queued before it began
\* (loop.cur), then the transport's I/O callback, then the timers that are
\* due; what they queue runs in the next iteration.  kind is "item" (the
\* queued callback x), "cs" (a callback of the application), "io" or "tm".
CanRun(kind, x) ==
  CASE kind = "item" -> x \in Queued(World) /\ (x \in loop.cur \/ loop.cur = {})
    [] kind = "cs" -> TRUE
    [] kind = "io" -> loop.cur = {} /\ (loop.phase = "cs" \/ Queued(World) = {})
    [] kind = "tm" -> loop.cur = {}

Commit(w, kind, x) ==
  \E u \in {w} :
    /\ ~u.ovf
    /\ \E g \in {Collect(u)} :
         LET base == CASE kind = "item" ->
                            IF x \in loop.cur THEN loop.cur \ {x}
                            ELSE Queued(World) \ {x}
                       [] kind = "cs" ->
                            IF loop.phase = "tm" THEN Queued(World) ELSE loop.cur
                       [] OTHER -> {}
             ph == IF kind \in {"io", "tm"} /\ Queued(g) # {} THEN "tm" ELSE "cs"
         IN /\ proto' = g.p
            /\ futures' = g.f
            /\ tasks' = g.t
            /\ loop' = [g.l EXCEPT !.cur = base \cap Queued(g), !.phase = ph]
            /\ net' = g.n

\* An exception that escapes data_received() is fatal to the transport.
Received(w) ==
  IF w.n.fault # "" /\ w.n.transport = "open"
  THEN [w EXCEPT !.n.transport = "broken"]
  ELSE w

\* ------------------------------------------------------------------ Init
\* The connection is established: the connect waiter is resolved, the
\* engine is idle.
InitWith(cts) ==
  /\ \E ct \in cts :
       proto = [waiter |-> None, cancel_waiter |-> None,
                cancel_sent_waiter |-> None, timeout_handle |-> None,
                statement |-> None, last_query |-> None,
                return_extra |-> FALSE, closing |-> FALSE,
                is_reading |-> TRUE, writing_allowed |-> TRUE,
                state |-> "IDLE", result_type |-> "OK", result |-> "none",
                copy_aborted |-> FALSE, command_timeout |-> ct]
  /\ futures = [i \in FutDom |-> Free]
  /\ tasks = [c \in Callers |-> IdleTask]
  /\ loop = [timers |-> [i \in FutDom |-> 0], ready |-> {}, cur |-> {},
             phase |-> "cs"]
  /\ net = [transport |-> "open", srv |-> "idle", chunks |-> 0,
            cancels |-> {}, terminates |-> 0, fault |-> "",
            paused |-> FALSE, rderr |-> FALSE]

Init == InitWith(CommandTimeouts)

\* --------------------------------------------------------------- actions
\* Idle callers are interchangeable: the lowest of them is the next to call.
LowestIdle(c) == \A d \in Callers : d < c => tasks[d].pc # "idle"

\* A caller starts a public operation; it runs to its first suspension.
StartWith(c, ops, tos, modes, bads) ==
  /\ tasks[c].pc = "idle"
  /\ LowestIdle(c)
  /\ \E op \in ops, to \in tos, bad \in bads :
       \E rx \in IF op \in {"bind_execute", "execute"} THEN BOOLEAN ELSE {FALSE},
          refs \in IF op = "close_statement" THEN {0, 1} ELSE {0},
          m \in IF op = "copy_in" THEN modes ELSE {""} :
         \E pl \in CopyInPlans(World, c, m) :
           Commit(ClearPlan(Prelude([World EXCEPT !.t[c] =
                    [IdleTask EXCEPT !.op = op, !.timeout = to, !.rx = rx,
                                     !.refs = refs, !.mode = m, !.plan = pl,
                                     !.bad = bad]], c),
                            c),
                  "cs", 0)

\* The request method accepts the caller's arguments.
StartOp(c, ops, tos, modes) == StartWith(c, ops, tos, modes, {FALSE})

Start(c) == StartOp(c, Ops, TimeoutArgs, CopyInModes)

StartClose(c) ==
  /\ tasks[c].pc = "idle"
  /\ LowestIdle(c)
  /\ Commit(Prelude([World EXCEPT !.t[c] = [IdleTask EXCEPT !.op = "close"]], c),
            "cs", 0)

Abort ==
  /\ ~proto.closing
  /\ Commit(transport_abort(_terminate(
              _handle_waiter_on_connection_lost(
                [World EXCEPT !.p.closing = TRUE], 0))), "cs", 0)

\* A task wakes up after the done-callbacks registered before its own.
Wakes(c) ==
  /\ Woken(World, c)
  /\ Awaited(World, c) \notin loop.ready
  /\ CanRun("item", 0 - c)

ResumeCancelWait(c) ==
  /\ tasks[c].pc = "await_cancel"
  /\ Wakes(c)
  /\ Commit(ClearPlan(AfterCancelWait(World, c), c), "item", 0 - c)

ResumeCancelSent(c) ==
  /\ tasks[c].pc = "await_cancel_sent"
  /\ Wakes(c)
  /\ Commit(ClearPlan(AfterCancelSent(World, c), c), "item", 0 - c)

ResumeWaiter(c) ==
  /\ tasks[c].pc \in {"await_waiter", "ci_final"}
  /\ Wakes(c)
  /\ Commit(Finish(World, c, OutOf(World, tasks[c].waiter)), "item", 0 - c)

ResumeCopyOut(c) ==
  /\ tasks[c].pc = "co_wait"
  /\ Wakes(c)
  /\ Commit(CopyOutGot(World, c), "item", 0 - c)

ResumeCopyInTimeout(c) ==
  /\ tasks[c].pc = "ci_tmo"
  /\ Wakes(c)
  /\ Commit(CopyInTimeoutGot(World, c), "item", 0 - c)

SinkDone(c) ==
  /\ tasks[c].pc = "co_sink"
  /\ \E how \in {"ok", "error", "timeout"} :
       /\ (how = "timeout" => tasks[c].timeout.k # "None")
       /\ Commit(CopyOutSunk(World, c, how), "cs", 0)

CopyInGateStep(c) ==
  /\ tasks[c].pc = "ci_gate"
  /\ proto.writing_allowed
  /\ \E pl \in CopyInPlans(World, c, tasks[c].mode) :
       Commit(ClearPlan(CopyInGate([World EXCEPT !.t[c].plan = pl], c), c),
              "cs", 0)

CopyInReadStep(c) ==
  /\ tasks[c].pc = "ci_read"
  /\ \E how \in {"chunk", "end", "error", "timeout"} :
       /\ CopyInReadEnabled(World, c, how)
       /\ Commit(ClearPlan(CopyInRead(World, c, how), c), "cs", 0)

\* The caller's task is cancelled while it awaits the waiter.
CancelCaller(c) ==
  /\ tasks[c].pc \in {"await_waiter", "co_wait", "ci_final", "ci_tmo"}
  /\ ~done(World, tasks[c].waiter)
  /\ Commit(Complete(World, tasks[c].waiter, "cancelled", "", 0), "cs", 0)

\* The caller has seen the outcome.
Return(c) ==
  /\ tasks[c].pc = "done"
  /\ Commit([World EXCEPT !.t[c] = IdleTask], "cs", 0)

\* call_later: a timeout handle fires.
TimerFire(h) ==
  /\ loop.timers[h] # 0
  /\ CanRun("tm", 0)
  /\ Commit(_on_timeout([World EXCEPT !.l.timers[h] = 0], h), "tm", 0)

\* call_soon: a done-callback of a waiter runs.
RunCallback(i) ==
  /\ i \in loop.ready
  /\ CanRun("item", i)
  /\ Commit(_on_waiter_completed([World EXCEPT !.l.ready = @ \ {i}], i), "item", i)

\* The connection owner has written the CancelRequest on its side channel.
CancelSent(i) ==
  /\ i \in net.cancels
  /\ Commit(IF done(World, i) THEN [World EXCEPT !.n.cancels = @ \ {i}]
            ELSE set_result([World EXCEPT !.n.cancels = @ \ {i}], i, "None", 0),
            "cs", 0)

Receiving == net.transport = "open" /\ ~net.paused /\ CanRun("io", 0)

ServerErrorResponse ==
  /\ Receiving
  /\ net.srv \in {"busy", "copy_out", "copy_in", "aborting"}
  /\ Commit(Received(OnErrorResponse([World EXCEPT !.n.srv = "failed"])), "io", 0)

ServerReadyForQuery ==
  /\ Receiving
  /\ net.srv \in {"busy", "failed"}
  /\ Commit(Received(_push_result([World EXCEPT !.n.srv = "idle"])), "io", 0)

ServerCopyData ==
  /\ Receiving
  /\ net.srv = "copy_out"
  /\ net.chunks < MaxChunks
  /\ Commit(Received(OnCopyData([World EXCEPT !.n.chunks = @ + 1])), "io", 0)

ServerCopyDone ==
  /\ Receiving
  /\ net.srv = "copy_out"
  /\ \E with_data \in BOOLEAN :
       Commit(Received(OnCopyDone([World EXCEPT !.n.srv = "idle"], with_data)),
              "io", 0)

\* The peer or the network closes the transport: connection_lost(exc) is
\* queued, with an exception or (end of file) without.
TransportClosed ==
  /\ net.transport = "open"
  /\ CanRun("io", 0)
  /\ \E t \in {"aborted", "broken"} :
       Commit([World EXCEPT !.n.transport = t], "io", 0)

\* connection_lost(exc)
ConnectionLost ==
  /\ net.transport \in {"aborted", "broken"}
  /\ CanRun("item", 0)
  /\ Commit(_on_connection_lost([World EXCEPT !.n.transport = "lost"],
                                IF net.transport = "broken" THEN 1 ELSE 0),
            "item", 0)

PauseWriting ==
  /\ net.transport = "open"
  /\ proto.writing_allowed
  /\ Commit(pause_writing(World), "cs", 0)

ResumeWriting ==
  /\ net.transport = "open"
  /\ ~proto.writing_allowed
  /\ Commit(resume_writing(World), "cs", 0)

Next ==
  \/ \E c \in Callers : Start(c)
  \/ \E c \in Callers : StartClose(c)
  \/ Abort
  \/ \E c \in Callers : ResumeCancelWait(c)
  \/ \E c \in Callers : ResumeCancelSent(c)
  \/ \E c \in Callers : ResumeWaiter(c)
  \/ \E c \in Callers : ResumeCopyOut(c)
  \/ \E c \in Callers : ResumeCopyInTimeout(c)
  \/ \E c \in Callers : SinkDone(c)
  \/ \E c \in Callers : CopyInGateStep(c)
  \/ \E c \in Callers : CopyInReadStep(c)
  \/ \E c \in Callers : CancelCaller(c)
  \/ \E c \in Callers : Return(c)
  \/ \E h \in FutIds : TimerFire(h)
  \/ \E i \in FutIds : RunCallback(i)
  \/ \E i \in FutIds : CancelSent(i)
  \/ ServerErrorResponse
  \/ ServerReadyForQuery
  \/ ServerCopyData
  \/ ServerCopyDone
  \/ TransportClosed
  \/ ConnectionLost
  \/ PauseWriting
  \/ ResumeWriting

Spec == Init /\ [][Next]_vars

\* ------------------------------------------------------------- scenarios
\* The protocol restricted to a family of operations, small enough to
\* explore exhaustively.
\* No timeout (None with no command_timeout) or a number.
Timeouts == {T_None, Num(NumberTimeout)}

Core ==
  \/ \E c \in Callers : ResumeCancelWait(c)
  \/ \E c \in Callers : ResumeCancelSent(c)
  \/ \E c \in Callers : Return(c)
  \/ \E h \in FutIds : TimerFire(h)
  \/ \E i \in FutIds : RunCallback(i)
  \/ \E i \in FutIds : CancelSent(i)
  \/ ServerErrorResponse
  \/ ServerReadyForQuery

Waiting == \E c \in Callers : ResumeWaiter(c)

Cancellation == \E c \in Callers : CancelCaller(c)

Loss == TransportClosed \/ ConnectionLost

CopyOutSteps ==
  \/ \E c \in Callers : ResumeCopyOut(c)
  \/ \E c \in Callers : SinkDone(c)
  \/ ServerCopyData
  \/ ServerCopyDone

\* With copy_in() as the only operation that installs a waiter its
\* TimeoutError handler finds the waiter done and does not suspend.
CopyInSteps ==
  \/ \E c \in Callers : CopyInGateStep(c)
  \/ \E c \in Callers : CopyInReadStep(c)

Gate == PauseWriting \/ ResumeWriting

\* Two callers of query(), close() and abort(), on a transport that can fail.
StartRequest(c) == StartOp(c, {"query"}, Timeouts, {})

NextRequest ==
  \/ \E c \in Callers : StartRequest(c)
  \/ \E c \in Callers : StartClose(c)
  \/ Abort
  \/ Core
  \/ Waiting
  \/ Cancellation
  \/ Loss

SpecRequest == InitWith({T_None}) /\ [][NextRequest]_vars

\* Two callers of copy_out().
StartCopyOut(c) == StartOp(c, {"copy_out"}, Timeouts, {})

NextCopyOut ==
  \/ \E c \in Callers : StartCopyOut(c)
  \/ CopyOutSteps
  \/ Core
  \/ Cancellation

SpecCopyOut == InitWith({T_None}) /\ [][NextCopyOut]_vars

\* One caller of copy_in() in its three input modes, on a transport that
\* can fail.
StartCopyIn == StartOp(1, {"copy_in"}, Timeouts, CopyInModes)

NextCopyIn ==
  \/ StartCopyIn
  \/ CopyInSteps
  \/ Gate
  \/ Core
  \/ Waiting
  \/ Cancellation
  \/ Loss

SpecCopyIn == InitWith({T_None}) /\ [][NextCopyIn]_vars

\* Every source of a cancel request: a caller of copy_out(), copy_in() from
\* a reader and query() with timeouts, and a second caller of query().
StartFirst == StartOp(1, {"copy_out", "copy_in", "query"}, Timeouts, {"reader"})

StartSecond == StartOp(2, {"query"}, {T_None}, {})

NextCancel ==
  \/ StartFirst
  \/ StartSecond
  \/ CopyOutSteps
  \/ \E c \in Callers : CopyInReadStep(c)
  \/ Core
  \/ Waiting
  \/ Cancellation

SpecCancel == InitWith({T_None}) /\ [][NextCancel]_vars

\* One caller of every operation with every kind of timeout argument, with
\* and without a command_timeout of the connection.
\* The gate stays open: copy_in from records or a buffer runs through its
\* data phase without suspending.
StartAny == StartOp(1, Ops, TimeoutArgs, {"records", "data"})

NextTimeout ==
  \/ StartAny
  \/ CopyOutSteps
  \/ Core
  \/ Waiting

SpecTimeout == InitWith(CommandTimeouts) /\ [][NextTimeout]_vars

\* The cancel wait: query() with a timeout by one caller, query() or close()
\* by a second caller, on a transport that can fail.  The server answers what
\* it was sent, the cancel connection reports its CancelRequest, and the
\* event loop runs what is queued.
StartTimed == StartOp(1, {"query"}, {Num(NumberTimeout)}, {})

NextCancelWait ==
  \/ StartTimed
  \/ StartSecond
  \/ StartClose(2)
  \/ Core
  \/ Waiting
  \/ Loss

\* The event loop runs a queued callback or wakes a task.
LoopRuns ==
  \/ \E c \in Callers : ResumeCancelWait(c) \/ ResumeCancelSent(c) \/ ResumeWaiter(c)
  \/ \E i \in FutIds : RunCallback(i)
  \/ ConnectionLost

\* The server answers an outstanding request; the cancel connection
\* reports that its CancelRequest was written.
PeerRuns ==
  \/ ServerReadyForQuery
  \/ \E i \in FutIds : CancelSent(i)

FairCancelWait == WF_vars(LoopRuns) /\ WF_vars(PeerRuns)

SpecCancelWait == InitWith({T_None}) /\ [][NextCancelWait]_vars /\ FairCancelWait

\* One caller of every public operation whose request method may raise on
\* the caller's arguments.
StartFaulty == StartWith(1, Ops, Timeouts, {"data"}, BOOLEAN)

NextRaise == \/ StartFaulty \/ CopyOutSteps \/ Core \/ Waiting

SpecRaise == InitWith({T_None}) /\ [][NextRaise]_vars

\* copy_in() with a finite timeout on a transport that pauses and resumes
\* writing as it likes.  Timers fire, the data source yields, ends or fails,
\* the server answers, and the event loop runs what is queued.
StartTimedCopyIn == StartOp(1, {"copy_in"}, {Num(NumberTimeout)}, CopyInModes)

NextCopyInWait ==
  \/ StartTimedCopyIn
  \/ CopyInSteps
  \/ Gate
  \/ Core
  \/ Waiting

\* The server answers an outstanding request, with or without an error.
ServerAnswers == ServerErrorResponse \/ ServerReadyForQuery

FairCopyInWait ==
  /\ WF_vars(LoopRuns)
  /\ WF_vars(PeerRuns)
  /\ WF_vars(ServerAnswers)
  /\ WF_vars(\E h \in FutIds : TimerFire(h))
  /\ WF_vars(CopyInSteps)

SpecCopyInWait == InitWith({T_None}) /\ [][NextCopyInWait]_vars /\ FairCopyInWait

\* ---------------------------------------------------------------- claims
\* Caller c is inside an operation: past the cancel waits, not yet returned.
InFlight(c) ==
  tasks[c].pc \in {"await_waiter", "co_wait", "co_sink", "ci_gate", "ci_read",
                   "ci_tmo", "ci_final"}

\* The step is the start of a public operation by c.
Starts(c) == tasks[c].pc = "idle" /\ tasks'[c].pc # "idle" /\ tasks'[c].op \in Ops

\* c's operation ended with an InterfaceError and sent nothing.
Refused(c) ==
  /\ tasks[c].pc = "done"
  /\ tasks[c].out.st = "exception"
  /\ tasks[c].out.v \in InterfaceErrors
  /\ ~tasks[c].sent

\* C1: an operation started while another caller's operation has not reached
\* its final terminal event (the engine is not idle, no cancel is in
\* progress), the sink of a COPY OUT included, fails with InterfaceError,
\* sends nothing and leaves the waiter, the timer and the other caller's
\* operation as they were.
C1_SingleInFlight ==
  [][\A c \in Callers :
       (/\ Starts(c)
        /\ \E d \in Callers \ {c} : InFlight(d)
        /\ proto.state # "IDLE"
        /\ proto.cancel_waiter = None)
       => /\ Refused(c)'
          /\ proto'.waiter = proto.waiter
          /\ proto'.timeout_handle = proto.timeout_handle
          /\ loop'.timers = loop.timers
          /\ \A d \in Callers \ {c} : tasks'[d] = tasks[d]]_vars

\* C2: at every moment between two steps exactly one holds: the waiter is
\* non-empty, or the engine is idle.
C2_WaiterXorIdle == (proto.waiter # None) # (proto.state = "IDLE")

\* The timer h of the current, unfinished waiter fires and no cancel is in
\* progress.
TimerOfWaiterFires(h) ==
  /\ TimerFire(h)
  /\ proto.waiter = h
  /\ proto.timeout_handle = h
  /\ ~done(World, h)
  /\ proto.cancel_waiter = None

\* C3: when the timer of the current, unfinished waiter fires and no cancel
\* is in progress, that one step creates cancel_waiter and
\* cancel_sent_waiter, hands cancel_sent_waiter to the side-channel cancel,
\* moves the engine to CANCELLED and fails the waiter with TimeoutError,
\* with nothing received from the server.
C3_TimerRequestsCancel ==
  [][\A h \in FutIds :
       TimerOfWaiterFires(h)
       => /\ proto'.cancel_waiter # None
          /\ futures'[proto'.cancel_waiter].st = "pending"
          /\ proto'.cancel_sent_waiter # None
          /\ proto'.cancel_sent_waiter # proto'.cancel_waiter
          /\ futures'[proto'.cancel_sent_waiter].st = "pending"
          /\ proto'.cancel_sent_waiter \in net'.cancels
          /\ proto'.state = "CANCELLED"
          /\ futures'[h].st = "exception"
          /\ futures'[h].v = "TimeoutError"
          /\ net'.srv = net.srv]_vars

\* A caller has seen TimeoutError while the server still runs the query.
C3_Witness ==
  \E c \in Callers :
    /\ tasks[c].pc = "done"
    /\ tasks[c].out = Raised("TimeoutError")
    /\ proto.state = "CANCELLED"
    /\ net.srv = "busy"

\* The step writes c's request.
Sends(c) == ~tasks[c].sent /\ tasks'[c].sent

\* C4: from the request of a cancel until the engine is idle again
\* cancel_waiter stays set and unresolved, and a request is written only in
\* a step that starts with no cancel_waiter and an idle engine.
C4_NoRequestUntilIdle ==
  /\ [](proto.state = "CANCELLED"
          => proto.cancel_waiter # None /\ ~done(World, proto.cancel_waiter))
  /\ [][\A c \in Callers :
          Sends(c) => proto.cancel_waiter = None /\ proto.state = "IDLE"]_vars

\* An operation waits for the cancel of a COPY OUT or COPY IN to end.
C4_Witness ==
  \E c \in Callers :
    /\ tasks[c].pc = "await_cancel"
    /\ proto.state = "CANCELLED"
    /\ \E d \in Callers : tasks[d].pc = "done" /\ tasks[d].op \in {"copy_out", "copy_in"}

\* Nothing else has started or closed the connection meanwhile.
Quiet ==
  /\ proto.waiter = None
  /\ proto.timeout_handle = None
  /\ proto.cancel_waiter = None
  /\ ~proto.closing

CancelWaits == {"await_cancel", "await_cancel_sent"}

\* C5: an operation started while cancel_waiter is unresolved suspends on
\* it instead of failing; it goes on only when cancel_waiter is resolved,
\* then suspends on an unresolved cancel_sent_waiter; and when it leaves
\* the cancel waits with nothing else started meanwhile it passes the state
\* check and sends its request.
C5_WaitsForCancel ==
  [][\A c \in Callers :
       /\ (Starts(c) /\ proto.cancel_waiter # None
                     /\ ~done(World, proto.cancel_waiter))
          => tasks'[c].pc = "await_cancel" /\ tasks'[c].aw = proto.cancel_waiter
       /\ (tasks[c].pc = "await_cancel" /\ tasks'[c].pc # "await_cancel")
          => /\ done(World, tasks[c].aw)
             /\ (proto.cancel_sent_waiter # None
                 /\ ~done(World, proto.cancel_sent_waiter))
                => tasks'[c].pc = "await_cancel_sent"
       /\ (tasks[c].pc \in CancelWaits /\ tasks'[c].pc \notin CancelWaits
           /\ tasks[c].op \in Ops /\ Quiet)
          => tasks'[c].sent /\ tasks'[c].pc = "await_waiter"]_vars

\* After a timeout an operation has passed the wait for cancel_waiter and
\* is suspended on cancel_sent_waiter.
C5_Witness ==
  \E c, d \in Callers :
    /\ tasks[c].pc = "await_cancel_sent"
    /\ tasks[d].pc = "done"
    /\ tasks[d].out = Raised("TimeoutError")

\* C6: when the done-callback of the cancelled waiter of the only
\* operation in flight runs, with no cancel in progress, the connection not
\* closing and the engine not idle, it clears the timer and requests a
\* protocol cancel.
C6_CancelledWaiterRequestsCancel ==
  [][\A i \in FutIds, c \in Callers :
       (/\ RunCallback(i)
        /\ cancelled(World, i)
        /\ tasks[c].waiter = i
        /\ InFlight(c)
        /\ \A d \in Callers \ {c} : tasks[d].pc = "idle"
        /\ proto.cancel_waiter = None
        /\ ~proto.closing
        /\ proto.state # "IDLE")
       => /\ proto'.cancel_waiter # None
          /\ proto'.timeout_handle = None
          /\ proto'.state = "CANCELLED"]_vars

\* C7: connection_lost() on a connection that is not closing fails the
\* unfinished waiter with ConnectionDoesNotExistError whose cause is the
\* transport's exception, and sets closing; closing is never reset; no
\* request is written once closing is set.
C7_ConnectionLost ==
  [][/\ (ConnectionLost /\ ~proto.closing)
        => /\ proto'.closing
           /\ proto'.waiter = None
           /\ (proto.waiter # None /\ ~done(World, proto.waiter))
              => /\ futures'[proto.waiter].st = "exception"
                 /\ futures'[proto.waiter].v = "ConnectionDoesNotExistError"
                 /\ futures'[proto.waiter].q
                      = (IF net.transport = "broken" THEN 1 ELSE 0)
     /\ proto.closing => proto'.closing
     /\ \A c \in Callers : proto.closing => ~Sends(c)]_vars

\* One caller saw the loss of the transport with its cause, another was
\* refused afterwards.
C7_Witness ==
  \E c, d \in Callers :
    /\ tasks[c].pc = "done"
    /\ tasks[c].out = [st |-> "exception", v |-> "ConnectionDoesNotExistError", q |-> 1]
    /\ tasks[d].pc = "done"
    /\ tasks[d].out = Raised(E_Closed)
    /\ ~tasks[d].sent

\* The server's message reaches an unfinished waiter that is not cancelled.
LiveWaiter ==
  /\ proto.waiter # None
  /\ ~done(World, proto.waiter)
  /\ proto.cancel_waiter = None

\* C8: an ErrorResponse leaves the unfinished waiter of the operation in
\* flight pending; the ReadyForQuery that follows completes it with an
\* exception, and leaves no waiter, no timer and a state in which the state
\* check of the next operation passes.
C8_ErrorAtReadyForQuery ==
  [][/\ (ServerErrorResponse /\ LiveWaiter)
        => /\ proto'.waiter = proto.waiter
           /\ futures'[proto.waiter].st = "pending"
     /\ (ServerReadyForQuery /\ LiveWaiter /\ proto.result_type = "FAILED")
        => /\ futures'[proto.waiter].st = "exception"
           /\ proto'.waiter = None
           /\ proto'.timeout_handle = None
           /\ loop'.timers[proto.waiter] = 0
           /\ proto'.state = "IDLE"
           /\ (_check_state(World) = "")']_vars

\* A caller got the server's error and the connection is clean.
C8_Witness ==
  \E c \in Callers :
    /\ tasks[c].pc = "done"
    /\ tasks[c].out.st = "exception"
    /\ tasks[c].out.v = "PostgresError"
    /\ proto.waiter = None
    /\ proto.timeout_handle = None
    /\ proto.state = "IDLE"

\* copy_in of c has started the COPY and has returned or raised.
CopyInOver(c) == tasks[c].pc = "done" /\ tasks[c].op = "copy_in" /\ tasks[c].sent

DataPhase == {"ci_gate", "ci_read"}

C11_PausedWhileSinkRuns ==
  /\ \A c \in Callers :
       /\ tasks[c].pc = "co_sink" => net.paused /\ ~proto.is_reading
       /\ (tasks[c].pc = "co_wait" /\ ~done(World, tasks[c].waiter))
          => ~net.paused
  /\ ~net.rderr

\* C12: a CopyData is written by copy_in only in a step in which the
\* writing-allowed gate is open, in every input mode.
C12_GateBeforeEveryChunk ==
  [][\A c \in Callers :
       tasks'[c].nd > tasks[c].nd => proto.writing_allowed]_vars

\* The timeout an operation is to run under: None falls through to the
\* connection's command_timeout, NO_TIMEOUT is no timeout, a number itself.
EffectiveTimeout(to, ct) ==
  IF to.k = "None" THEN ct
  ELSE IF to.k = "NO_TIMEOUT" THEN T_None
  ELSE Num(to.v)

\* Caller 1 starts op with timeout to on an idle, usable connection.
StartsUsable(op, to) ==
  /\ Quiet
  /\ proto.cancel_sent_waiter = None
  /\ proto.state = "IDLE"
  /\ StartOp(1, {op}, {to}, {"records", "data"})
  /\ (op = "close_statement" => tasks'[1].refs = 0)

\* C13: an operation started on an idle connection with an effective
\* timeout <= 0 raises TimeoutError at once and changes nothing: no request,
\* no waiter, no timer; with no effective timeout it sends its request and
\* arms no timer; with a positive one it sends its request and arms a timer
\* of that duration.
C13_EffectiveTimeout ==
  [][\A op \in Ops, to \in {T_None, NO_TIMEOUT, Num(0), Num(NumberTimeout)} :
       StartsUsable(op, to)
       => LET e == EffectiveTimeout(to, proto.command_timeout)
          IN IF e.k # "None" /\ e.v <= 0
             THEN /\ tasks'[1].pc = "done"
                  /\ tasks'[1].out = Raised("TimeoutError")
                  /\ ~tasks'[1].sent
                  /\ proto' = proto
                  /\ futures' = futures
                  /\ loop'.timers = loop.timers
             ELSE /\ tasks'[1].sent
                  /\ IF e.k = "None"
                     THEN /\ proto'.timeout_handle = None
                          /\ loop'.timers = loop.timers
                     ELSE /\ proto'.timeout_handle # None
                          /\ loop'.timers[proto'.timeout_handle] = e.v]_vars

\* C14: every operation started on an idle connection with a Boolean
\* timeout fails with the invalid-timeout error, sends no request and arms
\* no timer.
C14_BooleanTimeoutRejected ==
  [][\A op \in Ops :
       StartsUsable(op, Bool(1))
       => /\ tasks'[1].pc = "done"
          /\ tasks'[1].out = Raised("ValueError: invalid timeout value")
          /\ ~tasks'[1].sent
          /\ proto'.timeout_handle = None
          /\ loop'.timers = loop.timers]_vars

\* close() of caller d is pending: d awaits the waiter that close() created.
ClosePending(d) ==
  /\ tasks[d].op = "close"
  /\ tasks[d].pc = "await_waiter"
  /\ ~done(World, tasks[d].waiter)

\* C15: close() on an open connection that is not closing and has no cancel
\* in progress sends one Terminate, sets closing, aborts the transport and
\* waits; connection_lost without an error resolves a pending close() with
\* None; close() on a closing connection sends nothing and leaves a pending
\* close() of another caller pending.
C15_CloseOnce ==
  [][\A c \in Callers :
       /\ (/\ StartClose(c)
           /\ ~proto.closing
           /\ proto.cancel_waiter = None
           /\ proto.cancel_sent_waiter = None
           /\ net.transport = "open")
          => /\ net'.terminates = net.terminates + 1
             /\ proto'.closing
             /\ net'.transport = "aborted"
             /\ tasks'[c].pc = "await_waiter"
             /\ proto'.waiter = tasks'[c].waiter
       /\ (ConnectionLost /\ net.transport = "aborted" /\ ClosePending(c))
          => futures'[tasks[c].waiter].st = "result"
       /\ (StartClose(c) /\ proto.closing)
          => /\ net'.terminates = net.terminates
             /\ \A d \in Callers \ {c} :
                  ClosePending(d) => futures'[tasks[d].waiter].st = "pending"]_vars

\* C16: close_statement on a statement with refs # 0 never sends Close,
\* never marks the statement closed, never creates a waiter, and fails; with
\* refs = 0, started on an idle and usable connection with a timeout that
\* has not run out, it sends Close and marks the statement closed.
C16_CloseStatementRefs ==
  /\ [](\A c \in Callers :
          (tasks[c].op = "close_statement" /\ tasks[c].refs # 0)
          => /\ ~tasks[c].sent
             /\ ~tasks[c].stmt_closed
             /\ tasks[c].waiter = 0
             /\ tasks[c].pc = "done" => tasks[c].out.st = "exception")
  /\ [][\A to \in TimeoutArgs :
          (/\ StartsUsable("close_statement", to)
           /\ tasks'[1].out # Raised("TimeoutError"))
          => /\ tasks'[1].sent
             /\ tasks'[1].stmt_closed
             /\ net'.srv = "busy"
             /\ proto'.state = "CLOSE_STMT_PORTAL"
             /\ proto'.waiter = tasks'[1].waiter
             /\ proto'.waiter # None]_vars

\* close_statement on a statement still referenced has failed on an idle
\* connection, having sent nothing.
C16_Witness ==
  /\ tasks[1].op = "close_statement"
  /\ tasks[1].refs # 0
  /\ tasks[1].pc = "done"
  /\ tasks[1].out = Raised("RuntimeError: cannot close prepared statement")
  /\ proto.state = "IDLE"
  /\ net.srv = "idle"

\* The server's message that ends an operation is received.
TerminalEvent == ServerReadyForQuery \/ ServerCopyDone

\* c is suspended on the protocol's current waiter.
AwaitsWaiter(c) ==
  /\ tasks[c].pc \in {"await_waiter", "co_wait", "ci_final", "ci_tmo"}
  /\ tasks[c].waiter = proto.waiter

\* C17: a terminal event received while cancel_waiter is set resolves and
\* clears cancel_waiter, clears the waiter and the timer, raises nothing and
\* completes no other future; the waiter it clears is not one a caller is
\* still suspended on without an outcome; and while cancel_waiter is set no
\* step gives the current waiter a result.
C17_CancelledResultDiscarded ==
  [][/\ (TerminalEvent /\ proto.cancel_waiter # None)
        => /\ futures'[proto.cancel_waiter].st \in {"result", "free"}
           /\ proto'.cancel_waiter = None
           /\ proto'.waiter = None
           /\ proto'.timeout_handle = None
           /\ \A i \in FutIds : loop'.timers[i] = 0 \/ i # proto.timeout_handle
           /\ net'.fault = net.fault
           /\ \A i \in FutIds \ {proto.cancel_waiter} :
                futures'[i] = futures[i] \/ futures'[i] = Free
           /\ \A c \in Callers :
                (proto.waiter # None /\ AwaitsWaiter(c))
                => futures[proto.waiter].st \in {"exception", "cancelled"}
     /\ (proto.cancel_waiter # None /\ proto.waiter # None)
        => (futures'[proto.waiter].st = "result"
            => futures[proto.waiter].st = "result")]_vars

C19_OneCancelInProgress ==
  [][/\ proto.cancel_waiter # None
        => proto'.cancel_waiter \in {proto.cancel_waiter, None}
     /\ (proto.cancel_sent_waiter # None /\ ~done(World, proto.cancel_sent_waiter))
        => proto'.cancel_sent_waiter \in {proto.cancel_sent_waiter, None}]_vars

\* C20: a caller suspended on cancel_waiter or cancel_sent_waiter
\* eventually leaves the cancel waits.
C20_CancelWaitEnds ==
  \A c \in Callers :
    (tasks[c].pc \in CancelWaits) ~> (tasks[c].pc \notin CancelWaits)

\* c's operation ends in this step because its request method raised, with
\* nothing sent.
RequestRaised(c) ==
  /\ tasks[c].pc \in {"idle"} \cup CancelWaits
  /\ tasks'[c].pc = "done"
  /\ ~tasks'[c].sent
  /\ tasks'[c].out \in {Raised(E_Request),
                        Raised("InternalClientError: another operation is in progress")}

\* C21: an operation whose request method raises leaves no waiter and no
\* timeout handle and arms no timer, so the state check of the next
\* operation passes.
C21_RaisedRequestLeavesNoWaiter ==
  [][\A c \in Callers :
       RequestRaised(c)
       => /\ proto'.waiter = None
          /\ proto'.timeout_handle = None
          /\ \A i \in FutIds : loop'.timers[i] # 0 => loop.timers[i] # 0]_vars

\* C22: a copy_in() running under a finite timeout eventually returns to
\* its caller, whatever the transport does with the writing gate.
C22_CopyInReturns ==
  \A c \in Callers :
    (tasks[c].op = "copy_in" /\ InFlight(c) /\ tasks[c].timeout.k = "num")
      ~> (tasks[c].pc = "done")

\* The timer armed for h fires when h is no longer the current waiter, or
\* is done.
StaleTimerFires(h) ==
  /\ TimerFire(h)
  /\ proto.waiter # h \/ done(World, h)

\* C23: a timer that fires for a waiter that is done or is not the current
\* waiter changes nothing but the timer itself; and the only future a
\* firing timer fails with TimeoutError is the one it was armed for.
C23_StaleTimerDoesNothing ==
  [][\A h \in FutIds :
       /\ StaleTimerFires(h)
          => /\ proto' = proto
             /\ net' = net
             /\ tasks' = tasks
             /\ \A i \in FutIds : futures'[i] = futures[i] \/ futures'[i] = Free
       /\ TimerFire(h)
          => \A i \in FutIds \ {h} :
               futures'[i] = futures[i] \/ futures'[i].st \in {"free", "pending"}]_vars

\* The timer of a replaced waiter has fired: its handle is still recorded,
\* its timer is gone, and the current waiter is another, pending future.
C23_Witness ==
  \E h \in FutIds :
    /\ proto.timeout_handle = h
    /\ loop.timers[h] = 0
    /\ proto.waiter \notin {h, None}
    /\ proto.cancel_waiter = None
    /\ futures[proto.waiter].st = "pending"

\* C24: whenever there is no waiter and no cancel in progress, statement,
\* last_query and return_extra are None, None and False.
C24_FieldsResetWhenIdle ==
  (proto.waiter = None /\ proto.cancel_waiter = None)
    => /\ proto.statement = None
       /\ proto.last_query = None
       /\ proto.return_extra = FALSE

====
